---- MODULE Spec2Model ----
(***************************************************************************)
(* Model of monitor.py (BobCast): one invocation of run() scrapes up to    *)
(* two pages, diffs the merged roster against data/state.json, posts the   *)
(* job changes to a webhook and rewrites data/state.json.                  *)
(*                                                                         *)
(* Python values are modelled as follows.                                  *)
(*   str        a TLA+ string; text that the code scans character by       *)
(*              character (cell text, img src) is a sequence of            *)
(*              one-character strings and is joined when it becomes a key  *)
(*   None       the string None (no scraped or stored string equals it)    *)
(*   dict       a sequence of <<key, value>> pairs with distinct keys, in  *)
(*              insertion order (Python dicts iterate in insertion order)  *)
(*   state.json a record: whether the file exists and what its text holds  *)
(* Values stored under "players" are restricted to strings; keys of the    *)
(* JSON object other than "players" and "last_run_source" are left out.    *)
(***************************************************************************)
EXTENDS Integers, Sequences, FiniteSets, TLC

(***************************************************************************)
(* Bounds                                                                  *)
(***************************************************************************)
MaxRows == 2      \* rows of a fetched page
MaxRuns == 2      \* sequential invocations of main()
MaxFreshRuns == 3 \* sequential invocations from an absent state file
MaxParseRows == 2 \* rows of a document handed to a parser in SpecParse
MaxMergeLen == 2  \* entries of a roster handed to merge_dicts in SpecMerge

(***************************************************************************)
(* Program constants                                                       *)
(***************************************************************************)
ONLINE_URL == "https://pr-underworld.com/website/"
RANKING_URL == "https://pr-underworld.com/website/ranking/"

JOB_MAP ==
    ("220" :> "Templar") @@ ("224" :> "Master Breeder") @@
    ("221" :> "Mercenary") @@ ("223" :> "Oracle") @@ ("222" :> "Cardinal") @@
    ("120" :> "Berserker") @@ ("121" :> "Marksman") @@
    ("124" :> "Beast Master") @@ ("123" :> "War Kahuna") @@ ("122" :> "Magus") @@
    ("324" :> "Overlord") @@ ("320" :> "Slayer") @@ ("321" :> "Deadeye") @@
    ("322" :> "Void Mage") @@ ("323" :> "Corruptor")

None == "<None>"

\* Python truthiness of a str-or-None value
Truthy(v) == v # None /\ v # ""

(***************************************************************************)
(* dict operations                                                         *)
(***************************************************************************)
Keys(d) == {d[j][1] : j \in DOMAIN d}

HasKey(d, k) == \E j \in DOMAIN d : d[j][1] = k

\* d.get(k, default)
DictGet(d, k, default) ==
    IF HasKey(d, k)
    THEN d[CHOOSE j \in DOMAIN d : d[j][1] = k][2]
    ELSE default

\* variant: an existing key is removed and inserted again, so it goes last
DictSet_MovesToEnd(d, k, v) ==
    Append(SelectSeq(d, LAMBDA e : e[1] # k), <<k, v>>)

\* d[k] = v : an existing key keeps its position, a new key goes last
DictSet(d, k, v) ==
    IF HasKey(d, k)
    THEN [j \in DOMAIN d |-> IF d[j][1] = k THEN <<k, v>> ELSE d[j]]
    ELSE Append(d, <<k, v>>)

\* d.update(pairs), also dict(pairs)
RECURSIVE DictUpdate(_, _)
DictUpdate(d, pairs) ==
    IF pairs = <<>> THEN d
    ELSE DictUpdate(DictSet(d, Head(pairs)[1], Head(pairs)[2]), Tail(pairs))

\* the mapping a dict denotes (dict equality ignores order)
ToMap(d) == [k \in Keys(d) |-> DictGet(d, k, None)]

\* variant: a wins on a conflict
merge_dicts_LeftWins(a, b) ==
    LET out == DictUpdate(<<>>, b)
    IN  DictUpdate(out, a)

merge_dicts(a, b) ==
    LET out == DictUpdate(<<>>, a)
    IN  DictUpdate(out, b)

(***************************************************************************)
(* Text helpers                                                            *)
(***************************************************************************)
RECURSIVE Join(_)
Join(chars) == IF chars = <<>> THEN "" ELSE Head(chars) \o Join(Tail(chars))

Whitespace == {" ", "\n", "\t"}

RECURSIVE LStrip(_)
LStrip(chars) ==
    IF chars # <<>> /\ Head(chars) \in Whitespace THEN LStrip(Tail(chars)) ELSE chars

RECURSIVE RStrip(_)
RStrip(chars) ==
    IF chars # <<>> /\ chars[Len(chars)] \in Whitespace
    THEN RStrip(SubSeq(chars, 1, Len(chars) - 1))
    ELSE chars

\* td.get_text(strip=True) of a cell holding one text node
get_text(td) == Join(RStrip(LStrip(td.text)))

Digits == {"0", "1", "2", "3", "4", "5", "6", "7", "8", "9"}

\* JOB_CODE_RE = /(\d{3})\.jpg matched at position j of src
JOB_CODE_RE(src, j) ==
    /\ j + 7 <= Len(src)
    /\ src[j] = "/"
    /\ src[j + 1] \in Digits /\ src[j + 2] \in Digits /\ src[j + 3] \in Digits
    /\ src[j + 4] = "." /\ src[j + 5] = "j" /\ src[j + 6] = "p" /\ src[j + 7] = "g"

\* re.search takes the leftmost match; group(1) is the three digits
extract_job_code_from_img_src(src) ==
    LET hits == {j \in DOMAIN src : JOB_CODE_RE(src, j)}
    IN  IF hits = {} THEN None
        ELSE LET m == CHOOSE j \in hits : \A h \in hits : j <= h
             IN  src[m + 1] \o src[m + 2] \o src[m + 3]

(***************************************************************************)
(* Table extraction.  html is the sequence of <tbody> elements of the      *)
(* document, a tbody the sequence of its <tr>, a tr the sequence of its    *)
(* <td>; a td is [text, img, src]: its text node, whether it holds an      *)
(* <img>, and that img's src attribute ("" when the attribute is missing). *)
(* Python indexes cells from 0, sequences here start at 1.                 *)
(***************************************************************************)
\* variant: the code is not looked up in JOB_MAP
parse_online_tr_AnyCode(current, tds) ==
    IF Len(tds) < 3 THEN current
    ELSE LET name == get_text(tds[1])
             job_img == tds[3].img
         IN  IF ~job_img THEN current
             ELSE LET code == extract_job_code_from_img_src(tds[3].src)
                  IN  IF Truthy(code)
                      THEN DictSet(current, name, code)
                      ELSE current

parse_online_tr(current, tds) ==
    IF Len(tds) < 3 THEN current
    ELSE LET name == get_text(tds[1])
             job_img == tds[3].img
         IN  IF ~job_img THEN current
             ELSE LET code == extract_job_code_from_img_src(tds[3].src)
                  IN  IF Truthy(code) /\ code \in DOMAIN JOB_MAP
                      THEN DictSet(current, name, code)
                      ELSE current

RECURSIVE parse_online_tbody(_, _)
parse_online_tbody(current, trs) ==
    IF trs = <<>> THEN current
    ELSE parse_online_tbody(parse_online_tr(current, Head(trs)), Tail(trs))

RECURSIVE parse_online_soup(_, _)
parse_online_soup(current, tbodies) ==
    IF tbodies = <<>> THEN current
    ELSE parse_online_soup(parse_online_tbody(current, Head(tbodies)), Tail(tbodies))

parse_online(html) == parse_online_soup(<<>>, html)

\* variant: the ranking page is read with the cells of the start page
parse_ranking_tr_OnlineCells(current, tds) ==
    IF Len(tds) < 4 THEN current
    ELSE LET name == get_text(tds[1])
             job_img == tds[3].img
         IN  IF ~job_img THEN current
             ELSE LET code == extract_job_code_from_img_src(tds[3].src)
                  IN  IF Truthy(code) /\ code \in DOMAIN JOB_MAP
                      THEN DictSet(current, name, code)
                      ELSE current

parse_ranking_tr(current, tds) ==
    IF Len(tds) < 4 THEN current
    ELSE LET name == get_text(tds[2])
             job_img == tds[4].img
         IN  IF ~job_img THEN current
             ELSE LET code == extract_job_code_from_img_src(tds[4].src)
                  IN  IF Truthy(code) /\ code \in DOMAIN JOB_MAP
                      THEN DictSet(current, name, code)
                      ELSE current

RECURSIVE parse_ranking_tbody(_, _)
parse_ranking_tbody(current, trs) ==
    IF trs = <<>> THEN current
    ELSE parse_ranking_tbody(parse_ranking_tr(current, Head(trs)), Tail(trs))

RECURSIVE parse_ranking_soup(_, _)
parse_ranking_soup(current, tbodies) ==
    IF tbodies = <<>> THEN current
    ELSE parse_ranking_soup(parse_ranking_tbody(current, Head(tbodies)), Tail(tbodies))

parse_ranking(html) == parse_ranking_soup(<<>>, html)

(***************************************************************************)
(* data/state.json.  The text of the file is                               *)
(*   form     "garbage" (json.loads raises), "array" (valid JSON that is   *)
(*            not an object) or "object"                                   *)
(*   ptype    what the object holds under "players": "absent", "list" (a   *)
(*            value that is not an object) or "dict"                       *)
(*   members  the name/value members of the "players" object, as written,  *)
(*            each a pair of quoted strings                                *)
(*   lrs      the string under "last_run_source", None when absent         *)
(* A loaded value has the same shape with the members turned into a dict.  *)
(***************************************************************************)
NoText == [form |-> "garbage", ptype |-> "absent", members |-> <<>>, lrs |-> None]

EmptyObject == [form |-> "object", ptype |-> "absent", members |-> <<>>, lrs |-> None]

\* the Python value {}
EmptyDict == [type |-> "dict", ptype |-> "absent", players |-> <<>>, lrs |-> None]

\* a str as JSON text, between double quotes, and back
Quote(str) == <<"\"", str, "\"">>

Unquote(token) == token[2]

\* json.loads: raises on garbage (JsonValid is false); the members of an
\* object are inserted one by one, a repeated name overwriting the earlier
JsonValid(text) == text.form # "garbage"

json_loads(text) ==
    [type |-> IF text.form = "object" THEN "dict" ELSE "list",
     ptype |-> text.ptype,
     players |-> DictUpdate(<<>>, [j \in DOMAIN text.members |->
                    <<Unquote(text.members[j][1]), Unquote(text.members[j][2])>>]),
     lrs |-> text.lrs]

\* variant: the last member is not written
json_dumps_Truncated(value) ==
    [form |-> IF value.type = "dict" THEN "object" ELSE "array",
     ptype |-> value.ptype,
     members |-> [j \in 1..(Len(value.players) - 1) |->
                    <<Quote(value.players[j][1]), Quote(value.players[j][2])>>],
     lrs |-> value.lrs]

\* json.dumps(state, indent=2, ensure_ascii=False): members in dict order
json_dumps(value) ==
    [form |-> IF value.type = "dict" THEN "object" ELSE "array",
     ptype |-> value.ptype,
     members |-> [j \in DOMAIN value.players |->
                    <<Quote(value.players[j][1]), Quote(value.players[j][2])>>],
     lrs |-> value.lrs]

\* variant: the file is reset whether or not it exists
ensure_state_Always(f) == [exists |-> TRUE, text |-> EmptyObject]

\* ensure_state: the file after the call
ensure_state(f) ==
    IF ~f.exists THEN [exists |-> TRUE, text |-> EmptyObject] ELSE f

\* variant: the decoding error is not caught, the caller gets no dict
load_state_NoCatch(f) == json_loads(ensure_state(f).text)

\* load_state: the value returned, reading the file ensure_state left
load_state(f) ==
    LET g == ensure_state(f)
    IN  IF JsonValid(g.text) THEN json_loads(g.text) ELSE EmptyDict

\* save_state: the file after the call
save_state(value) == [exists |-> TRUE, text |-> json_dumps(value)]

(***************************************************************************)
(* Messages                                                                *)
(***************************************************************************)
\* get_random_quote: the values it can return for a quotes file, given as
\* whether it exists and its lines
get_random_quote(qf) ==
    LET lines == {Join(RStrip(LStrip(qf.lines[j]))) : j \in DOMAIN qf.lines} \ {""}
    IN  IF qf.exists /\ lines # {} THEN lines ELSE {""}

build_message(quote, player, old_code, new_code) ==
    LET old_name == IF old_code \in DOMAIN JOB_MAP THEN JOB_MAP[old_code] ELSE old_code
        new_name == IF new_code \in DOMAIN JOB_MAP THEN JOB_MAP[new_code] ELSE new_code
        prefix == IF quote # "" THEN quote \o " " ELSE ""
    IN  prefix \o player \o " rebirthed from " \o old_name \o " to " \o new_name \o "."

(***************************************************************************)
(* Diff and reconciliation of run()                                        *)
(***************************************************************************)
\* variant: the old code is not checked against JOB_MAP
RECURSIVE find_changes_OldUnchecked(_, _, _)
find_changes_OldUnchecked(changes, before, items) ==
    IF items = <<>> THEN changes
    ELSE LET name == Head(items)[1]
             new_code == Head(items)[2]
             old_code == DictGet(before, name, None)
         IN  find_changes_OldUnchecked(
                 IF /\ Truthy(old_code) /\ old_code # new_code
                    /\ new_code \in DOMAIN JOB_MAP
                 THEN Append(changes, <<name, old_code, new_code>>)
                 ELSE changes,
                 before, Tail(items))

\* variant: equal codes are not told from different ones
RECURSIVE find_changes_EqualReported(_, _, _)
find_changes_EqualReported(changes, before, items) ==
    IF items = <<>> THEN changes
    ELSE LET name == Head(items)[1]
             new_code == Head(items)[2]
             old_code == DictGet(before, name, None)
         IN  find_changes_EqualReported(
                 IF /\ Truthy(old_code)
                    /\ old_code \in DOMAIN JOB_MAP /\ new_code \in DOMAIN JOB_MAP
                 THEN Append(changes, <<name, old_code, new_code>>)
                 ELSE changes,
                 before, Tail(items))

\* variant: the two codes of a transition are appended the other way round
RECURSIVE find_changes_Swapped(_, _, _)
find_changes_Swapped(changes, before, items) ==
    IF items = <<>> THEN changes
    ELSE LET name == Head(items)[1]
             new_code == Head(items)[2]
             old_code == DictGet(before, name, None)
         IN  find_changes_Swapped(
                 IF /\ Truthy(old_code) /\ old_code # new_code
                    /\ old_code \in DOMAIN JOB_MAP /\ new_code \in DOMAIN JOB_MAP
                 THEN Append(changes, <<name, new_code, old_code>>)
                 ELSE changes,
                 before, Tail(items))

\* lines 152-158: the loop over current_total.items()
RECURSIVE find_changes(_, _, _)
find_changes(changes, before, items) ==
    IF items = <<>> THEN changes
    ELSE LET name == Head(items)[1]
             new_code == Head(items)[2]
             old_code == DictGet(before, name, None)
         IN  find_changes(
                 IF /\ Truthy(old_code) /\ old_code # new_code
                    /\ old_code \in DOMAIN JOB_MAP /\ new_code \in DOMAIN JOB_MAP
                 THEN Append(changes, <<name, old_code, new_code>>)
                 ELSE changes,
                 before, Tail(items))

\* lines 138-140: state.get("players", {}) and the isinstance check
players_of(value) == IF value.ptype = "dict" THEN value.players ELSE <<>>

\* variant: the new players are the current roster alone
reconcile_CurrentOnly(value, before, current_total, source) ==
    [value EXCEPT !.ptype = "dict", !.players = DictUpdate(<<>>, current_total),
                  !.lrs = source]

\* variant: the previous value wins on a conflict
reconcile_PreviousWins(value, before, current_total, source) ==
    LET after == DictUpdate(DictUpdate(<<>>, current_total), before)
    IN  [value EXCEPT !.ptype = "dict", !.players = after, !.lrs = source]

\* variant: a name whose previous code is not in JOB_MAP is not updated
reconcile_KeepsUnknown(value, before, current_total, source) ==
    LET known == SelectSeq(current_total,
                           LAMBDA e : ~HasKey(before, e[1])
                                      \/ DictGet(before, e[1], None) \in DOMAIN JOB_MAP)
        after == DictUpdate(DictUpdate(<<>>, before), known)
    IN  [value EXCEPT !.ptype = "dict", !.players = after, !.lrs = source]

\* lines 170-173
reconcile(value, before, current_total, source) ==
    LET after == DictUpdate(DictUpdate(<<>>, before), current_total)
    IN  [value EXCEPT !.ptype = "dict", !.players = after, !.lrs = source]

(***************************************************************************)
(* Inputs: what the environment can hand to a run                          *)
(***************************************************************************)
Sources == {"online", "ranking", "both"}

WebhookUrls == {"", "https://discord.example/hook"}

Td(text) == [text |-> text, img |-> FALSE, src |-> <<>>]
Img(src) == [text |-> <<>>, img |-> TRUE, src |-> src]

Src220 == <<"i", "/", "2", "2", "0", ".", "j", "p", "g">>
Src221 == <<"/", "2", "2", "1", ".", "j", "p", "g">>
Src999 == <<"/", "9", "9", "9", ".", "j", "p", "g">>
SrcBad == <<"/", "2", "2", ".", "j", "p", "g">>

NameA == <<"a">>
NameB == <<" ", "b", "\n">>

\* rows in the layout of the start page: name, level, job icon
OnlineRow(name, src) == <<Td(name), Td(<<"7">>), Img(src)>>

\* rows in the layout of the ranking page: rank, name, level, job icon
RankingRow(name, src) == <<Td(<<"1">>), Td(name), Td(<<"7">>), Img(src)>>

OnlineRows ==
    {OnlineRow(NameA, Src220), OnlineRow(NameA, Src221),
     OnlineRow(NameB, Src220), OnlineRow(NameA, Src999)}

RankingRows ==
    {RankingRow(NameA, Src220), RankingRow(NameA, Src221),
     RankingRow(NameB, Src220), RankingRow(NameB, SrcBad)}

SeqsUpTo(S, n) == UNION {[1..k -> S] : k \in 0..n}

\* a page on which a name comes back in a later row, after another name
RepeatOnline ==
    << <<OnlineRow(NameA, Src220), OnlineRow(NameB, Src220), OnlineRow(NameA, Src221)>> >>

RepeatRanking ==
    << <<RankingRow(NameB, Src220), RankingRow(NameA, Src220), RankingRow(NameB, Src220)>> >>

\* documents with one table body of at most MaxRows rows, or with none,
\* and the page with the repeated name
OnlinePages ==
    {<<>>, RepeatOnline} \cup {<<trs>> : trs \in SeqsUpTo(OnlineRows, MaxRows)}

RankingPages ==
    {<<>>, RepeatRanking} \cup {<<trs>> : trs \in SeqsUpTo(RankingRows, MaxRows)}

QuoteFiles ==
    {[exists |-> FALSE, lines |-> <<>>],
     [exists |-> TRUE, lines |-> << <<"Q", " ">>, <<" ">> >>]}

Member(name, code) == <<Quote(name), Quote(code)>>

ObjectText(ptype, members, lrs) ==
    [form |-> "object", ptype |-> ptype, members |-> members, lrs |-> lrs]

\* data/state.json before the first run: absent, unparseable, not an
\* object, hand-edited, or written by an earlier version of the program
InitFiles ==
    {[exists |-> FALSE, text |-> NoText],
     [exists |-> TRUE, text |-> NoText],
     [exists |-> TRUE, text |-> [NoText EXCEPT !.form = "array"]],
     [exists |-> TRUE, text |-> EmptyObject],
     [exists |-> TRUE, text |-> ObjectText("list", <<>>, "online")],
     [exists |-> TRUE, text |-> ObjectText("dict", <<>>, "both")],
     [exists |-> TRUE, text |-> ObjectText("dict", << Member("a", "220") >>, "online")],
     [exists |-> TRUE, text |-> ObjectText("dict", << Member("b", "221"), Member("a", "220") >>, "ranking")],
     [exists |-> TRUE, text |-> ObjectText("dict", << Member("a", "999"), Member("c", "320") >>, "online")],
     [exists |-> TRUE, text |-> ObjectText("dict", << Member("a", "") >>, None)],
     [exists |-> TRUE, text |-> ObjectText("dict", << Member("a", "220"), Member("a", "221") >>, None)]}

(***************************************************************************)
(* State                                                                   *)
(***************************************************************************)
VARIABLES
    file,           \* data/state.json
    pc,             \* position of the process: idle, load, get_online, ...
    error,          \* the exception that ended the run, NoError otherwise
    runs,           \* invocations started so far
    source,         \* run() argument
    dry_run,        \* run() argument
    webhook_url,    \* os.environ DISCORD_WEBHOOK_URL
    state,          \* local of run()
    before,         \* local of run()
    html,           \* local of run()
    rosters,        \* what parse_online and parse_ranking returned in this run
    current_total,  \* local of run()
    changes,        \* local of run()
    done,           \* iterations of the posting loop completed
    posts,          \* requests.post calls that returned a response, this run
    printed,        \* lines printed to stdout, this run
    stderr,         \* lines printed to stderr, this run
    fetched,        \* URLs http_get returned a page for, this run
    file0,          \* data/state.json when the run started
    saves,          \* save_state calls of this run
    hist,           \* what earlier runs did, where a specification records it
    race,           \* the two overlapping processes of SpecRace
    fn              \* the call under way in SpecMerge and SpecParse

vars == <<file, pc, error, runs, source, dry_run, webhook_url, state, before,
          html, rosters, current_total, changes, done, posts, printed, stderr,
          fetched, file0, saves, hist, race, fn>>

\* the variables a specification other than their own leaves alone
aside == <<hist, race, fn>>

NoError == [exc |-> "", at |-> ""]

NoRosters == [online |-> <<>>, ranking |-> <<>>]

\* no run has started
RunInit ==
    /\ pc = "idle"
    /\ error = NoError
    /\ runs = 0
    /\ source = "online"
    /\ dry_run = FALSE
    /\ webhook_url = ""
    /\ state = EmptyDict
    /\ before = <<>>
    /\ html = <<>>
    /\ rosters = NoRosters
    /\ current_total = <<>>
    /\ changes = <<>>
    /\ done = 0
    /\ posts = <<>>
    /\ printed = <<>>
    /\ stderr = <<>>
    /\ fetched = <<>>
    /\ file0 = file
    /\ saves = 0

NoHist == [prev |-> <<>>, last |-> <<>>, clean |-> TRUE]

NoRace == <<>>

NoFn == <<>>

AsideInit ==
    /\ hist = NoHist
    /\ race = NoRace
    /\ fn = NoFn

Init ==
    /\ file \in InitFiles
    /\ RunInit
    /\ AsideInit

(***************************************************************************)
(* One invocation of main(): run(source, dry_run)                          *)
(***************************************************************************)
Raise(exc, at) ==
    /\ pc' = "failed"
    /\ error' = [exc |-> exc, at |-> at]

\* main() parses the arguments and calls run(); line 136 reads the environment
StartUpTo(limit) ==
    /\ pc = "idle"
    /\ runs < limit
    /\ runs' = runs + 1
    /\ source' \in Sources
    /\ dry_run' \in BOOLEAN
    /\ webhook_url' \in WebhookUrls
    /\ pc' = "load"
    /\ file0' = file
    /\ UNCHANGED <<file, error, state, before, html, rosters, current_total,
                   changes, done, posts, printed, stderr, fetched, saves>>
    /\ UNCHANGED aside

Start ==
    /\ pc = "idle"
    /\ StartUpTo(MaxRuns)

\* lines 137-140: load_state() and the players of the loaded state;
\* state.get raises AttributeError when the JSON value is not an object
Load ==
    /\ pc = "load"
    /\ file' = ensure_state(file)
    /\ state' = load_state(file)
    /\ IF state'.type # "dict"
       THEN /\ Raise("AttributeError", "run")
            /\ UNCHANGED before
       ELSE /\ before' = players_of(state')
            /\ pc' = IF source \in {"online", "both"} THEN "get_online" ELSE "get_ranking"
            /\ UNCHANGED error
    /\ UNCHANGED <<runs, source, dry_run, webhook_url, html, rosters,
                   current_total, changes, done, posts, printed, stderr,
                   fetched, file0, saves>>
    /\ UNCHANGED aside

\* http_get(url): requests.get raises on a transport failure,
\* raise_for_status on a non-success response, else the body is returned
http_get(url, pages, next) ==
    /\ \/ \E page \in pages :
            /\ html' = page
            /\ fetched' = Append(fetched, url)
            /\ pc' = next
            /\ UNCHANGED error
       \/ \E exc \in {"ConnectionError", "HTTPError"} :
            /\ Raise(exc, "http_get")
            /\ UNCHANGED <<html, fetched>>
    /\ UNCHANGED <<file, runs, source, dry_run, webhook_url, state, before,
                   rosters, current_total, changes, done, posts, printed,
                   stderr, file0, saves>>
    /\ UNCHANGED aside

\* line 145
GetOnline ==
    /\ pc = "get_online"
    /\ http_get(ONLINE_URL, OnlinePages, "parse_online")

\* variant: the second test is an elif, ranking is skipped after online
ParseOnline_SkipsRanking ==
    /\ pc = "parse_online"
    /\ rosters' = [rosters EXCEPT !.online = parse_online(html)]
    /\ current_total' = merge_dicts(current_total, rosters'.online)
    /\ html' = <<>>
    /\ pc' = "diff"
    /\ UNCHANGED <<file, error, runs, source, dry_run, webhook_url, state,
                   before, changes, done, posts, printed, stderr, fetched,
                   file0, saves>>
    /\ UNCHANGED aside

\* line 146; html is not read again before line 148 overwrites it
ParseOnline ==
    /\ pc = "parse_online"
    /\ rosters' = [rosters EXCEPT !.online = parse_online(html)]
    /\ current_total' = merge_dicts(current_total, rosters'.online)
    /\ html' = <<>>
    /\ pc' = IF source \in {"ranking", "both"} THEN "get_ranking" ELSE "diff"
    /\ UNCHANGED <<file, error, runs, source, dry_run, webhook_url, state,
                   before, changes, done, posts, printed, stderr, fetched,
                   file0, saves>>
    /\ UNCHANGED aside

\* line 148
GetRanking ==
    /\ pc = "get_ranking"
    /\ http_get(RANKING_URL, RankingPages, "parse_ranking")

\* line 149
ParseRanking ==
    /\ pc = "parse_ranking"
    /\ rosters' = [rosters EXCEPT !.ranking = parse_ranking(html)]
    /\ current_total' = merge_dicts(current_total, rosters'.ranking)
    /\ html' = <<>>
    /\ pc' = "diff"
    /\ UNCHANGED <<file, error, runs, source, dry_run, webhook_url, state,
                   before, changes, done, posts, printed, stderr, fetched,
                   file0, saves>>
    /\ UNCHANGED aside

\* lines 152-158
Diff ==
    /\ pc = "diff"
    /\ changes' = find_changes(<<>>, before, current_total)
    /\ pc' = "notify"
    /\ UNCHANGED <<file, error, runs, source, dry_run, webhook_url, state,
                   before, html, rosters, current_total, done, posts,
                   printed, stderr, fetched, file0, saves>>
    /\ UNCHANGED aside

\* variant: the URL is not checked, an empty one is posted to
post_discord_NoUrlCheck(url, content) ==
    \/ /\ posts' = Append(posts, [content |-> content, ok |-> TRUE])
       /\ done' = done + 1
       /\ UNCHANGED <<stderr, pc, error>>
    \/ /\ posts' = Append(posts, [content |-> content, ok |-> FALSE])
       /\ stderr' = Append(stderr, "Webhook Fehler")
       /\ done' = done + 1
       /\ UNCHANGED <<pc, error>>
    \/ /\ Raise("ConnectionError", "post_discord")
       /\ UNCHANGED <<posts, stderr, done>>

\* post_discord(webhook_url, content): lines 119-127.  requests.post is
\* called outside the try block, so what it raises leaves post_discord
post_discord(url, content) ==
    IF ~Truthy(url)
    THEN /\ stderr' = Append(stderr, "Kein DISCORD_WEBHOOK_URL gesetzt")
         /\ done' = done + 1
         /\ UNCHANGED <<posts, pc, error>>
    ELSE \/ /\ posts' = Append(posts, [content |-> content, ok |-> TRUE])
            /\ done' = done + 1
            /\ UNCHANGED <<stderr, pc, error>>
         \/ /\ posts' = Append(posts, [content |-> content, ok |-> FALSE])
            /\ stderr' = Append(stderr, "Webhook Fehler")
            /\ done' = done + 1
            /\ UNCHANGED <<pc, error>>
         \/ /\ Raise("ConnectionError", "post_discord")
            /\ UNCHANGED <<posts, stderr, done>>

\* lines 161-167: one iteration of the posting loop
Notify ==
    /\ pc = "notify"
    /\ done < Len(changes)
    /\ \E qf \in QuoteFiles : \E quote \in get_random_quote(qf) :
         LET c == changes[done + 1]
             msg == build_message(quote, c[1], c[2], c[3])
         IN  IF dry_run
             THEN /\ printed' = Append(printed, msg)
                  /\ done' = done + 1
                  /\ UNCHANGED <<posts, stderr, pc, error>>
             ELSE /\ post_discord(webhook_url, msg)
                  /\ UNCHANGED printed
    /\ UNCHANGED <<file, runs, source, dry_run, webhook_url, state, before,
                   html, rosters, current_total, changes, fetched, file0, saves>>
    /\ UNCHANGED aside

\* variant: the state is saved from inside the posting loop
Save_InLoop ==
    /\ pc = "notify"
    /\ state' = reconcile(state, before, current_total, source)
    /\ file' = save_state(state')
    /\ saves' = saves + 1
    /\ pc' = "done"
    /\ UNCHANGED <<error, runs, source, dry_run, webhook_url, before, html,
                   rosters, current_total, changes, done, posts, printed,
                   stderr, fetched, file0>>
    /\ UNCHANGED aside

\* variant: a dry run does not write the state
Save_NotInDryRun ==
    /\ pc = "notify"
    /\ done = Len(changes)
    /\ state' = reconcile(state, before, current_total, source)
    /\ file' = IF dry_run THEN file ELSE save_state(state')
    /\ saves' = saves + 1
    /\ pc' = "done"
    /\ UNCHANGED <<error, runs, source, dry_run, webhook_url, before, html,
                   rosters, current_total, changes, done, posts, printed,
                   stderr, fetched, file0>>
    /\ UNCHANGED aside

\* lines 170-174, after the posting loop has run out
Save ==
    /\ pc = "notify"
    /\ done = Len(changes)
    /\ state' = reconcile(state, before, current_total, source)
    /\ file' = save_state(state')
    /\ saves' = saves + 1
    /\ pc' = "done"
    /\ UNCHANGED <<error, runs, source, dry_run, webhook_url, before, html,
                   rosters, current_total, changes, done, posts, printed,
                   stderr, fetched, file0>>
    /\ UNCHANGED aside

\* the process ends, normally or with a traceback; nothing of it survives
\* but the file
ExitRun ==
    /\ pc \in {"done", "failed"}
    /\ pc' = "idle"
    /\ error' = NoError
    /\ source' = "online"
    /\ dry_run' = FALSE
    /\ webhook_url' = ""
    /\ state' = EmptyDict
    /\ before' = <<>>
    /\ html' = <<>>
    /\ rosters' = NoRosters
    /\ current_total' = <<>>
    /\ changes' = <<>>
    /\ done' = 0
    /\ posts' = <<>>
    /\ printed' = <<>>
    /\ stderr' = <<>>
    /\ fetched' = <<>>
    /\ file0' = file
    /\ saves' = 0
    /\ UNCHANGED <<file, runs>>

Exit ==
    /\ ExitRun
    /\ UNCHANGED aside

Next ==
    \/ Start
    \/ Load
    \/ GetOnline
    \/ ParseOnline
    \/ GetRanking
    \/ ParseRanking
    \/ Diff
    \/ Notify
    \/ Save
    \/ Exit

Spec == Init /\ [][Next]_vars

(***************************************************************************)
(* Two runs in a row, the second knowing what the first did.               *)
(***************************************************************************)
SeqFiles ==
    {[exists |-> TRUE, text |-> ObjectText("dict", << Member("b", "221"), Member("a", "220") >>, "ranking")]}

InitSeq ==
    /\ file \in SeqFiles
    /\ RunInit
    /\ AsideInit

\* the process ends; a completed run leaves its merged roster, its mode and
\* the number of its transitions to the next run's observer
ExitSeq ==
    /\ ExitRun
    /\ hist' = IF pc = "done"
               THEN [hist EXCEPT
                        !.prev = <<[roster |-> ToMap(current_total),
                                    dry_run |-> dry_run,
                                    nchanges |-> Len(changes)]>>]
               ELSE [hist EXCEPT !.prev = <<>>]
    /\ UNCHANGED <<race, fn>>

NextSeq ==
    \/ Start
    \/ Load
    \/ GetOnline
    \/ ParseOnline
    \/ GetRanking
    \/ ParseRanking
    \/ Diff
    \/ Notify
    \/ Save
    \/ ExitSeq

SpecSeq == InitSeq /\ [][NextSeq]_vars

(***************************************************************************)
(* Runs one after the other from an absent state file, an observer keeping *)
(* the last transition of every player.                                    *)
(***************************************************************************)
FreshFiles == {[exists |-> FALSE, text |-> NoText]}

InitFresh ==
    /\ file \in FreshFiles
    /\ RunInit
    /\ AsideInit

StartFresh ==
    /\ pc = "idle"
    /\ StartUpTo(MaxFreshRuns)

\* the new codes of the transitions of a run, written over those of the
\* runs before
RECURSIVE Emitted(_, _)
Emitted(last, cs) ==
    IF cs = <<>> THEN last
    ELSE Emitted(DictSet(last, Head(cs)[1], Head(cs)[3]), Tail(cs))

\* the process ends; a completed run leaves its transitions to the
\* observer, a run a delivery ended leaves the sequence of completed runs
ExitFresh ==
    /\ ExitRun
    /\ hist' = IF pc = "done"
               THEN [hist EXCEPT !.last = Emitted(hist.last, changes)]
               ELSE IF error.at = "post_discord"
                    THEN [hist EXCEPT !.clean = FALSE]
                    ELSE hist
    /\ UNCHANGED <<race, fn>>

NextFresh ==
    \/ StartFresh
    \/ Load
    \/ GetOnline
    \/ ParseOnline
    \/ GetRanking
    \/ ParseRanking
    \/ Diff
    \/ Notify
    \/ Save
    \/ ExitFresh

SpecFresh == InitFresh /\ [][NextFresh]_vars

(***************************************************************************)
(* One call of parse_online or parse_ranking on a document.                *)
(***************************************************************************)
\* the variables of a run, which a call on its own leaves alone
run_vars == <<file, pc, error, runs, source, dry_run, webhook_url, state,
              before, html, rosters, current_total, changes, done, posts,
              printed, stderr, fetched, file0, saves>>

\* rows of either layout: too few cells for both, enough for the start
\* page only, enough for both; icon cells without an image, with a path
\* that does not match, with a code outside JOB_MAP
ParseRows ==
    {<<Td(NameA), Img(Src220)>>,
     OnlineRow(NameA, Src220), OnlineRow(NameB, Src221),
     OnlineRow(NameA, SrcBad), OnlineRow(NameB, Src999),
     <<Td(NameA), Td(<<"7">>), Td(<<"x">>)>>,
     RankingRow(NameA, Src221), RankingRow(NameB, Src220),
     RankingRow(NameA, SrcBad), RankingRow(NameB, Src999),
     <<Td(NameA), Td(NameB), Img(Src221), Img(Src220)>>,
     <<Td(NameB), Td(NameA), Img(Src220), Td(<<"x">>)>>}

\* documents with one table body of at most MaxParseRows rows, with no
\* table body, or with two table bodies of one row
ParseDocs ==
    {<<>>} \cup {<<trs>> : trs \in SeqsUpTo(ParseRows, MaxParseRows)}
           \cup {<< <<r1>>, <<r2>> >> : r1, r2 \in ParseRows}

InitParse ==
    /\ file \in FreshFiles
    /\ RunInit
    /\ hist = NoHist
    /\ race = NoRace
    /\ fn \in [at : {"call"}, layout : {"online", "ranking"}, doc : ParseDocs,
                roster : {<<>>}]

\* parse_online(html), lines 76-92
CallParseOnline ==
    /\ fn.at = "call" /\ fn.layout = "online"
    /\ fn' = [fn EXCEPT !.at = "returned", !.roster = parse_online(fn.doc)]
    /\ UNCHANGED <<run_vars, hist, race>>

\* parse_ranking(html), lines 94-110
CallParseRanking ==
    /\ fn.at = "call" /\ fn.layout = "ranking"
    /\ fn' = [fn EXCEPT !.at = "returned", !.roster = parse_ranking(fn.doc)]
    /\ UNCHANGED <<run_vars, hist, race>>

NextParse ==
    \/ CallParseOnline
    \/ CallParseRanking

SpecParse == InitParse /\ [][NextParse]_vars

(***************************************************************************)
(* One call of merge_dicts(a, b), statement by statement.  Dicts are       *)
(* objects: heap maps a reference to the dict it points to, and the two    *)
(* arguments may be one object.                                            *)
(***************************************************************************)
MergeNames == {"a", "b", "c"}

MergeCodes == {"220", "221"}

\* dicts of at most MaxMergeLen entries, every key once
MergeRosters ==
    {d \in SeqsUpTo(MergeNames \X MergeCodes, MaxMergeLen) :
        \A j, k \in DOMAIN d : d[j][1] = d[k][1] => j = k}

\* references: the arguments' objects and the object line 114 allocates
RefA == 1
RefB == 2
RefOut == 3

InitMerge ==
    /\ file \in FreshFiles
    /\ RunInit
    /\ hist = NoHist
    /\ race = NoRace
    /\ \E da, db \in MergeRosters : \E rb \in {RefA, RefB} :
          /\ rb = RefA => db = da
          /\ fn = [at |-> "copy", a |-> RefA, b |-> rb, out |-> 0, ret |-> 0,
                   heap |-> (RefA :> da) @@ (RefB :> db),
                   a0 |-> da, b0 |-> IF rb = RefA THEN da ELSE db]

\* variant: out = a, no copy is made
MergeCopy_Alias ==
    /\ fn.at = "copy"
    /\ fn' = [fn EXCEPT !.at = "update", !.out = fn.a]
    /\ UNCHANGED <<run_vars, hist, race>>

\* line 114: out = dict(a)
MergeCopy ==
    /\ fn.at = "copy"
    /\ fn' = [fn EXCEPT !.at = "update", !.out = RefOut,
                        !.heap = (RefOut :> DictUpdate(<<>>, fn.heap[fn.a])) @@ fn.heap]
    /\ UNCHANGED <<run_vars, hist, race>>

\* line 115: out.update(b)
MergeUpdate ==
    /\ fn.at = "update"
    /\ fn' = [fn EXCEPT !.at = "return",
                        !.heap[fn.out] = DictUpdate(fn.heap[fn.out], fn.heap[fn.b])]
    /\ UNCHANGED <<run_vars, hist, race>>

\* line 116: return out
MergeReturn ==
    /\ fn.at = "return"
    /\ fn' = [fn EXCEPT !.at = "returned", !.ret = fn.out]
    /\ UNCHANGED <<run_vars, hist, race>>

NextMerge ==
    \/ MergeCopy
    \/ MergeUpdate
    \/ MergeReturn

SpecMerge == InitMerge /\ [][NextMerge]_vars

(***************************************************************************)
(* Two invocations of main() at the same time on one data/state.json, in   *)
(* dry-run mode.  Path.write_text opens the file, which empties it, and    *)
(* then writes the text from the start of the file; when the other process *)
(* has written in between, what the file holds afterwards depends on the   *)
(* lengths of the two texts: the text written last, or that text followed  *)
(* by the rest of the longer one, which is no JSON document.               *)
(***************************************************************************)
RaceProcs == {1, 2}

Other(p) == 3 - p

\* the argument of run() in each process
RaceSource(p) == IF p = 1 THEN "online" ELSE "ranking"

RaceFiles ==
    {[exists |-> FALSE, text |-> NoText],
     [exists |-> TRUE, text |-> ObjectText("dict", << Member("a", "220") >>, "online")]}

\* a process before its first statement
RaceProc ==
    [pc |-> "exists", state |-> EmptyDict, before |-> <<>>,
     current_total |-> <<>>, changes |-> <<>>, pending |-> NoText,
     clobbered |-> FALSE, read_at |-> 0]

\* the variables of a run but the file
run_locals == <<pc, error, runs, source, dry_run, webhook_url, state, before,
                html, rosters, current_total, changes, done, posts, printed,
                stderr, fetched, file0, saves>>

InitRace ==
    /\ file \in RaceFiles
    /\ RunInit
    /\ hist = NoHist
    /\ fn = NoFn
    /\ race = [procs |-> <<RaceProc, RaceProc>>, opens |-> 0, writes |-> <<>>,
               overlap |-> FALSE]

\* line 38: STATE_PATH.exists()
RaceExists(p) ==
    /\ race.procs[p].pc = "exists"
    /\ race' = [race EXCEPT !.procs[p].pc = IF file.exists THEN "read" ELSE "create"]
    /\ UNCHANGED <<run_vars, hist, fn>>

\* write_text, first half: the file is opened for writing and is empty
write_text_open(p, text, next) ==
    /\ file' = [exists |-> TRUE, text |-> NoText]
    /\ race' = [race EXCEPT !.procs[p].pc = next,
                            !.procs[p].pending = text,
                            !.procs[p].clobbered = FALSE,
                            !.opens = IF next = "save_write" THEN @ + 1 ELSE @]

\* write_text, second half: the text is written and the file closed
write_text_flush(p, next) ==
    LET me == race.procs[p]
        you == race.procs[Other(p)]
        open == you.pc \in {"create_write", "save_write"}
    IN  /\ \E text \in (IF me.clobbered THEN {me.pending, NoText} ELSE {me.pending}) :
              file' = [exists |-> TRUE, text |-> text]
        /\ race' = [race EXCEPT !.procs[p].pc = next,
                                !.procs[p].clobbered = FALSE,
                                !.procs[Other(p)].clobbered = open \/ @,
                                !.writes = IF next = "done" THEN Append(@, p) ELSE @,
                                !.overlap = @ \/ (next = "done" /\ you.pc = "save_write")]

\* line 39, the file is opened
RaceCreateOpen(p) ==
    /\ race.procs[p].pc = "create"
    /\ write_text_open(p, EmptyObject, "create_write")
    /\ UNCHANGED <<run_locals, hist, fn>>

\* line 39, "{}" is written
RaceCreateWrite(p) ==
    /\ race.procs[p].pc = "create_write"
    /\ write_text_flush(p, "read")
    /\ UNCHANGED <<run_locals, hist, fn>>

\* lines 43-46 and 138-140: the file is read and decoded; the file holds
\* a JSON object or nothing JSON can decode, so state is a dict
RaceRead(p) ==
    LET value == IF JsonValid(file.text) THEN json_loads(file.text) ELSE EmptyDict
    IN  /\ race.procs[p].pc = "read"
        /\ race' = [race EXCEPT !.procs[p].pc = "scrape",
                                !.procs[p].state = value,
                                !.procs[p].before = players_of(value),
                                !.procs[p].read_at = race.opens]
        /\ UNCHANGED <<run_vars, hist, fn>>

\* lines 143-149 for the source of the process: the page is fetched,
\* parsed and merged, or the fetch raises
RaceScrape(p) ==
    /\ race.procs[p].pc = "scrape"
    /\ \/ \E page \in (IF RaceSource(p) = "online" THEN OnlinePages ELSE RankingPages) :
            LET roster == IF RaceSource(p) = "online" THEN parse_online(page)
                          ELSE parse_ranking(page)
            IN  race' = [race EXCEPT !.procs[p].pc = "diff",
                                     !.procs[p].current_total = merge_dicts(<<>>, roster)]
       \/ race' = [race EXCEPT !.procs[p].pc = "failed"]
    /\ UNCHANGED <<run_vars, hist, fn>>

\* lines 152-167: the transitions are found and printed
RaceDiff(p) ==
    /\ race.procs[p].pc = "diff"
    /\ race' = [race EXCEPT !.procs[p].pc = "save",
                            !.procs[p].changes =
                                find_changes(<<>>, race.procs[p].before,
                                             race.procs[p].current_total)]
    /\ UNCHANGED <<run_vars, hist, fn>>

\* what a process writes at the end: lines 170-173 and json.dumps
RaceText(p) ==
    json_dumps(reconcile(race.procs[p].state, race.procs[p].before,
                         race.procs[p].current_total, RaceSource(p)))

\* variant: the players are read again from the file before they are
\* overlaid
RaceSaveOpen_Reloads(p) ==
    /\ race.procs[p].pc = "save"
    /\ write_text_open(p, json_dumps(reconcile(load_state(file),
                                               players_of(load_state(file)),
                                               race.procs[p].current_total,
                                               RaceSource(p))),
                       "save_write")
    /\ UNCHANGED <<run_locals, hist, fn>>

\* lines 170-174, the file is opened
RaceSaveOpen(p) ==
    /\ race.procs[p].pc = "save"
    /\ write_text_open(p, RaceText(p), "save_write")
    /\ UNCHANGED <<run_locals, hist, fn>>

\* line 174, the text is written
RaceSaveWrite(p) ==
    /\ race.procs[p].pc = "save_write"
    /\ write_text_flush(p, "done")
    /\ UNCHANGED <<run_locals, hist, fn>>

NextRace ==
    \E p \in RaceProcs :
        \/ RaceExists(p)
        \/ RaceCreateOpen(p)
        \/ RaceCreateWrite(p)
        \/ RaceRead(p)
        \/ RaceScrape(p)
        \/ RaceDiff(p)
        \/ RaceSaveOpen(p)
        \/ RaceSaveWrite(p)

SpecRace == InitRace /\ [][NextRace]_vars

(***************************************************************************)
(* Vocabulary of the properties                                            *)
(***************************************************************************)
Range(seq) == {seq[j] : j \in DOMAIN seq}

\* the players mapping the text of a file denotes: a repeated name has the
\* value of its last member; no mapping is denoted by a file that is
\* absent, unparseable or holds no object under "players"
Snapshot(f) ==
    LET m == f.text.members
        names == {Unquote(m[j][1]) : j \in DOMAIN m}
        last(n) == CHOOSE j \in DOMAIN m :
                      /\ Unquote(m[j][1]) = n
                      /\ \A h \in DOMAIN m : Unquote(m[h][1]) = n => h <= j
    IN  IF f.exists /\ f.text.form = "object" /\ f.text.ptype = "dict"
        THEN [n \in names |-> Unquote(m[last(n)][2])]
        ELSE [n \in {} |-> None]

\* the diff of the run has been computed
PastDiff ==
    \/ pc \in {"notify", "done"}
    \/ pc = "failed" /\ error.at = "post_discord"

\* the fetch of a source page failed
FetchFailed == pc = "failed" /\ error.at = "http_get"

EmptyStore == [exists |-> TRUE, text |-> EmptyObject]

(***************************************************************************)
(* Properties                                                              *)
(***************************************************************************)

\* C1: the transitions of a run are exactly the triples (name, old, new)
\* where name is in the merged current roster with code new, the snapshot
\* the run started from holds old for name, old # new and both are keys of
\* JOB_MAP; each such triple is emitted once.
C1_TransitionIff ==
    PastDiff =>
        LET prev == Snapshot(file0)
            cur == ToMap(current_total)
            changed == {n \in DOMAIN cur \cap DOMAIN prev :
                          /\ prev[n] # cur[n]
                          /\ prev[n] \in DOMAIN JOB_MAP
                          /\ cur[n] \in DOMAIN JOB_MAP}
        IN  /\ Range(changes) = {<<n, prev[n], cur[n]>> : n \in changed}
            /\ Len(changes) = Cardinality(changed)

\* a run that emits a transition for one name while it sees another name
\* for the first time
C1_Witness ==
    /\ PastDiff
    /\ changes # <<>>
    /\ \E n \in Keys(current_total) : n \notin DOMAIN Snapshot(file0)

\* C2 as stated: after a failed fetch nothing was notified and the store
\* is exactly the store the run started with.
C2_StoreUntouchedOnFetchFailure ==
    FetchFailed => posts = <<>> /\ printed = <<>> /\ file = file0

\* C2 amended: after a failed fetch nothing was notified, save_state was
\* not called, and the store is the store the run started with, except
\* that a store that did not exist now exists and holds the empty object.
C2_FetchFailureAborts ==
    FetchFailed =>
        /\ posts = <<>> /\ printed = <<>>
        /\ saves = 0
        /\ file = IF file0.exists THEN file0 ELSE EmptyStore

\* the ranking fetch fails after the online fetch succeeded, no store before
C2_Witness ==
    /\ FetchFailed
    /\ source = "both"
    /\ fetched = <<ONLINE_URL>>
    /\ ~file0.exists

\* C3: a delivery failure does not end the run: a run that got past the
\* diff ends with every transition attempted and the snapshot saved.
C3_DeliveryFailureCaught ==
    (PastDiff /\ pc \in {"done", "failed"}) =>
        /\ pc = "done"
        /\ done = Len(changes)
        /\ saves = 1

\* C4: no step removes a name from the players of the store, and a name
\* that is not in the run's merged roster keeps its code.
C4_NeverShrinks ==
    [][\A n \in DOMAIN Snapshot(file) :
          /\ n \in DOMAIN Snapshot(file')
          /\ n \notin Keys(current_total) => Snapshot(file')[n] = Snapshot(file)[n]]_vars

\* a second run has saved, and a name of the store was not in its scrape
C4_Witness ==
    /\ pc = "done"
    /\ runs = 2
    /\ \E n \in DOMAIN Snapshot(file0) : n \notin Keys(current_total)
    /\ current_total # <<>>

\* C5: when a run has completed, the players of the store are the players
\* the run started from overlaid with the merged current roster.
C5_Overlay ==
    pc = "done" =>
        LET prev == Snapshot(file0)
            new == Snapshot(file)
        IN  /\ DOMAIN new = DOMAIN prev \cup Keys(current_total)
            /\ \A n \in Keys(current_total) : new[n] = DictGet(current_total, n, None)
            /\ \A n \in DOMAIN prev \ Keys(current_total) : new[n] = prev[n]

\* a completed run that overwrote one name and kept another
C5_Witness ==
    /\ pc = "done"
    /\ \E n \in Keys(current_total) :
          /\ n \in DOMAIN Snapshot(file0)
          /\ Snapshot(file0)[n] # DictGet(current_total, n, None)
    /\ \E n \in DOMAIN Snapshot(file0) : n \notin Keys(current_total)

\* C6 as stated: only save_state changes the store, and every run that
\* has ended called it exactly once.
C6_OnlySaveWritesOncePerRun ==
    [][/\ file' # file => saves' = saves + 1
       /\ pc' \in {"done", "failed"} => saves' = 1]_vars

\* C6 amended: the store changes only when save_state is called or when
\* ensure_state creates a missing store holding the empty object;
\* save_state is called at most once in a run, exactly once in a run that
\* completes and not at all in a run that an exception ends, and its call
\* is the last step of the run, after every transition has been attempted.
C6_SaveOnceAtEnd ==
    [][/\ file' # file =>
            \/ saves' = saves + 1 /\ pc' = "done"
            \/ pc = "load" /\ ~file.exists /\ file' = EmptyStore /\ saves' = saves
       /\ saves' \in {0, 1}
       /\ saves' = 1 <=> pc' = "done"
       /\ pc' = "done" => done' = Len(changes')]_vars

\* a run that attempted two notifications and then saved
C6_Witness ==
    /\ pc = "done"
    /\ saves = 1
    /\ Len(changes) = 2
    /\ done = 2

\* C7: a run that starts with no store or with an unparseable store loads
\* an empty players dict without raising, emits no transition, can only be
\* ended early by a failed fetch, and when it completes the players of the
\* store are the merged current roster.
C7_MissingOrCorruptStore ==
    ((~file0.exists \/ file0.text.form = "garbage") /\ pc \notin {"idle", "load"}) =>
        /\ before = <<>>
        /\ changes = <<>>
        /\ pc = "failed" => error.at = "http_get"
        /\ pc = "done" => Snapshot(file) = ToMap(current_total)

\* a run on an unparseable store that completed with a scraped roster
C7_Witness ==
    /\ pc = "done"
    /\ file0.exists /\ file0.text.form = "garbage"
    /\ current_total # <<>>

\* C8: with source both, a name on both pages has the ranking page's code
\* in the merged roster, in the transition emitted for it and in the
\* saved store; with source online or ranking only that page is fetched
\* and the merged roster is its roster.
C8_RankingWins ==
    (pc = "diff" \/ PastDiff) =>
        /\ source = "both" =>
              \A n \in Keys(rosters.online) \cap Keys(rosters.ranking) :
                 LET code == DictGet(rosters.ranking, n, None)
                 IN  /\ DictGet(current_total, n, None) = code
                     /\ \A c \in Range(changes) : c[1] = n => c[3] = code
                     /\ pc = "done" => Snapshot(file)[n] = code
        /\ source = "online" =>
              fetched = <<ONLINE_URL>> /\ ToMap(current_total) = ToMap(rosters.online)
        /\ source = "ranking" =>
              fetched = <<RANKING_URL>> /\ ToMap(current_total) = ToMap(rosters.ranking)

\* a completed run with source both in which the two pages disagree on a name
C8_Witness ==
    /\ pc = "done"
    /\ source = "both"
    /\ \E n \in Keys(rosters.online) \cap Keys(rosters.ranking) :
          DictGet(rosters.online, n, None) # DictGet(rosters.ranking, n, None)

C10_NoWebhook ==
    (~Truthy(webhook_url) /\ pc # "idle") =>
        /\ posts = <<>>
        /\ error.at # "post_discord"
        /\ PastDiff => pc \in {"notify", "done"}
        /\ pc = "done" =>
              /\ done = Len(changes)
              /\ saves = 1
              /\ \A n \in Keys(current_total) :
                    Snapshot(file)[n] = DictGet(current_total, n, None)

\* a run without a webhook URL, not a dry run, passed two transitions and
\* completed
C10_Witness ==
    /\ pc = "done"
    /\ ~Truthy(webhook_url)
    /\ ~dry_run
    /\ Len(changes) = 2
    /\ Len(stderr) = 2

\* the URLs a run with the given source fetches, in order
Requested(src) ==
    IF src = "online" THEN <<ONLINE_URL>>
    ELSE IF src = "ranking" THEN <<RANKING_URL>>
    ELSE <<ONLINE_URL, RANKING_URL>>

\* C11 as stated: extraction and merging start only when every requested
\* page has been fetched.
C11_AllFetchesBeforeExtraction ==
    pc \in {"parse_online", "parse_ranking"} => fetched = Requested(source)

\* the steps from one position of a run to the next
PhaseSteps(src, p, q) ==
    \/ p = "idle" /\ q = "load"
    \/ p = "load" /\ q = (IF src \in {"online", "both"} THEN "get_online" ELSE "get_ranking")
    \/ p = "get_online" /\ q = "parse_online"
    \/ p = "parse_online" /\ q = (IF src = "both" THEN "get_ranking" ELSE "diff")
    \/ p = "get_ranking" /\ q = "parse_ranking"
    \/ p = "parse_ranking" /\ q = "diff"
    \/ p = "diff" /\ q = "notify"
    \/ p = "notify" /\ q = "done"
    \/ p \in {"load", "get_online", "get_ranking", "notify"} /\ q = "failed"
    \/ p \in {"done", "failed"} /\ q = "idle"

\* what has and has not happened yet at each position of a run
PhaseInv ==
    /\ pc = "parse_online" =>
          fetched = <<ONLINE_URL>> /\ rosters = NoRosters /\ current_total = <<>>
    /\ pc = "get_ranking" =>
          IF source = "both"
          THEN fetched = <<ONLINE_URL>> /\ current_total = rosters.online
          ELSE fetched = <<>> /\ current_total = <<>>
    /\ pc = "parse_ranking" =>
          fetched = Requested(source) /\ rosters.ranking = <<>>
    /\ pc \in {"get_online", "parse_online", "get_ranking", "parse_ranking", "diff"} =>
          changes = <<>> /\ done = 0 /\ posts = <<>> /\ printed = <<>> /\ saves = 0
    /\ pc = "diff" =>
          /\ fetched = Requested(source)
          /\ ToMap(current_total) = ToMap(merge_dicts(rosters.online, rosters.ranking))
    /\ pc = "notify" => saves = 0 /\ done <= Len(changes)
    /\ pc = "done" => saves = 1 /\ done = Len(changes)

\* C11 amended: a run fetches, extracts and merges one requested source
\* after the other, online before ranking, so under source both the online
\* page is extracted and merged before the ranking page is fetched; the
\* diff starts when every requested source is merged, and diff, notify,
\* reconcile and persist follow in that order, each after the one before
\* has finished.
C11_PhaseOrder ==
    [][/\ PhaseInv
       /\ pc' # pc => PhaseSteps(source, pc, pc')]_vars

\* under source both the online roster is merged and the ranking page is
\* not fetched yet
C11_Witness ==
    /\ pc = "get_ranking"
    /\ source = "both"
    /\ fetched = <<ONLINE_URL>>
    /\ current_total # <<>>

\* the keys of a dict in iteration order
KeySeq(d) == [j \in DOMAIN d |-> d[j][1]]

\* a sequence without the later occurrences of its elements
RECURSIVE FirstSeen(_)
FirstSeen(seq) ==
    IF seq = <<>> THEN <<>>
    ELSE LET front == FirstSeen(SubSeq(seq, 1, Len(seq) - 1))
             x == seq[Len(seq)]
         IN  IF x \in Range(front) THEN front ELSE Append(front, x)

\* the rows of a document in document order
RECURSIVE RowsOf(_)
RowsOf(tbodies) ==
    IF tbodies = <<>> THEN <<>> ELSE Head(tbodies) \o RowsOf(Tail(tbodies))

\* a row contributes an entry: enough cells, an image in the icon cell
\* whose path matches the pattern with a code of JOB_MAP
Contributes(tds, min_cells, icon_cell) ==
    /\ Len(tds) >= min_cells
    /\ tds[icon_cell].img
    /\ extract_job_code_from_img_src(tds[icon_cell].src) \in DOMAIN JOB_MAP

\* the names of the contributing rows of a document, row by row
ContributedNames(doc, min_cells, name_cell, icon_cell) ==
    LET rows == SelectSeq(RowsOf(doc), LAMBDA tds : Contributes(tds, min_cells, icon_cell))
    IN  [j \in DOMAIN rows |-> get_text(rows[j][name_cell])]

\* the messages that can announce a transition
Messages(c) ==
    {build_message(quote, c[1], c[2], c[3]) :
        quote \in UNION {get_random_quote(qf) : qf \in QuoteFiles}}

\* the order of the merged roster, of the transitions and of the deliveries
OrderInv ==
    /\ (pc = "diff" \/ PastDiff) =>
          /\ KeySeq(current_total) =
                KeySeq(rosters.online) \o
                SelectSeq(KeySeq(rosters.ranking), LAMBDA n : n \notin Keys(rosters.online))
          /\ \A n \in Keys(rosters.ranking) :
                DictGet(current_total, n, None) = DictGet(rosters.ranking, n, None)
    /\ PastDiff =>
          /\ [j \in DOMAIN changes |-> changes[j][1]] =
                SelectSeq(KeySeq(current_total),
                          LAMBDA n : \E c \in Range(changes) : c[1] = n)
          /\ Len(posts) <= Len(changes) /\ Len(printed) <= Len(changes)
          /\ \A j \in DOMAIN posts : posts[j].content \in Messages(changes[j])
          /\ \A j \in DOMAIN printed : printed[j] \in Messages(changes[j])
          /\ dry_run => Len(printed) = done
          /\ (~dry_run /\ Truthy(webhook_url)) => Len(posts) = done

\* C12: a page's roster lists the names of its contributing rows in
\* first-appearance order, a later row for a name changing its value in
\* place; the merged roster lists the online names in that order, then the
\* names only the ranking page has, a name on both pages carrying the
\* ranking code at its online position; the transitions follow the merged
\* roster's order and are delivered one by one in that order.
C12_RosterOrder ==
    [][/\ OrderInv
       /\ pc = "parse_online" =>
             KeySeq(rosters'.online) = FirstSeen(ContributedNames(html, 3, 1, 3))
       /\ pc = "parse_ranking" =>
             KeySeq(rosters'.ranking) = FirstSeen(ContributedNames(html, 4, 2, 4))]_vars

\* two transitions were posted in roster order; the first name is on both
\* pages with different codes and comes back in a later row of the ranking
\* page
C12_Witness ==
    /\ PastDiff
    /\ source = "both"
    /\ Len(changes) = 2 /\ Len(posts) = 2
    /\ KeySeq(current_total) = <<"a", "b">>
    /\ KeySeq(rosters.ranking) = <<"b", "a">>
    /\ DictGet(rosters.online, "a", None) = "221"
    /\ DictGet(rosters.ranking, "a", None) = "220"

\* C14: a name whose previous code is not a key of JOB_MAP and whose
\* current code is one gets no transition, and the completed run stores
\* the current code for it; no run, so no later run either, reports a
\* transition from a code that is not a key of JOB_MAP.
C14_SilentOverwrite ==
    PastDiff =>
        /\ \A n \in Keys(current_total) \cap DOMAIN Snapshot(file0) :
              Snapshot(file0)[n] \notin DOMAIN JOB_MAP =>
                 /\ \A c \in Range(changes) : c[1] # n
                 /\ pc = "done" =>
                       /\ Snapshot(file)[n] = DictGet(current_total, n, None)
                       /\ Snapshot(file)[n] \in DOMAIN JOB_MAP
        /\ \A c \in Range(changes) : c[2] \in DOMAIN JOB_MAP

\* a completed run overwrote the code 999 of a name and reported nothing
C14_Witness ==
    /\ pc = "done"
    /\ changes = <<>>
    /\ \E n \in Keys(current_total) \cap DOMAIN Snapshot(file0) :
          Snapshot(file0)[n] = "999"

\* C17: a dry run posts nothing and cannot be ended by a delivery; a
\* completed run, dry or not, stores the previous players overlaid with
\* the merged roster and stamps its source; a normal run that follows a
\* completed dry run and scrapes the same roster emits no transition.
C17_DryRun ==
    /\ (dry_run /\ pc # "idle") =>
          /\ posts = <<>>
          /\ error.at # "post_discord"
          /\ PastDiff => Len(printed) = done
    /\ pc = "done" =>
          /\ file.exists /\ file.text.form = "object" /\ file.text.lrs = source
          /\ DOMAIN Snapshot(file) = DOMAIN Snapshot(file0) \cup Keys(current_total)
          /\ \A n \in Keys(current_total) :
                Snapshot(file)[n] = DictGet(current_total, n, None)
          /\ \A n \in DOMAIN Snapshot(file0) \ Keys(current_total) :
                Snapshot(file)[n] = Snapshot(file0)[n]
    /\ (PastDiff /\ ~dry_run /\ hist.prev # <<>>) =>
          ((hist.prev[1].dry_run /\ ToMap(current_total) = hist.prev[1].roster) =>
              changes = <<>>)

\* a normal run scraped the roster of the dry run before it, which had
\* rendered a transition
C17_Witness ==
    /\ pc = "done"
    /\ ~dry_run /\ Truthy(webhook_url)
    /\ hist.prev # <<>>
    /\ hist.prev[1].dry_run /\ hist.prev[1].nchanges > 0
    /\ ToMap(current_total) = hist.prev[1].roster

\* C18: a run that follows a completed run and obtains the same merged
\* roster emits no transition and stores the players the first run stored.
C18_Idempotent ==
    (PastDiff /\ hist.prev # <<>>) =>
        (ToMap(current_total) = hist.prev[1].roster =>
            /\ changes = <<>>
            /\ pc = "done" => Snapshot(file) = Snapshot(file0))

\* the second run repeated the roster of a first run that had emitted two
\* transitions
C18_Witness ==
    /\ pc = "done"
    /\ hist.prev # <<>>
    /\ hist.prev[1].nchanges = 2
    /\ ToMap(current_total) = hist.prev[1].roster

\* C19: from an absent state file and over completed runs, a transition of
\* a player has as its old code the new code of the player's transition
\* before it, a run has one transition per player at most, and a completed
\* run stores the new code of each of its transitions for the player.
C19_TransitionsChain ==
    (hist.clean /\ PastDiff) =>
        /\ \A j, k \in DOMAIN changes : changes[j][1] = changes[k][1] => j = k
        /\ \A c \in Range(changes) :
              /\ HasKey(hist.last, c[1]) => c[2] = DictGet(hist.last, c[1], None)
              /\ pc = "done" => Snapshot(file)[c[1]] = c[3]

\* a completed run emitted a second transition for a player
C19_Witness ==
    /\ pc = "done"
    /\ hist.clean
    /\ \E c \in Range(changes) : HasKey(hist.last, c[1])

\* C20: from an absent state file every code the file stores for a player
\* is a key of JOB_MAP, at every point of every run.
C20_StoredCodesRegistered ==
    \A n \in DOMAIN Snapshot(file) : Snapshot(file)[n] \in DOMAIN JOB_MAP

\* a second run added a player from the start page to the one the first
\* run had stored
C20_Witness ==
    /\ pc = "done"
    /\ runs = 2
    /\ DOMAIN Snapshot(file) = {"a", "b"}
    /\ DOMAIN Snapshot(file0) = {"b"}
    /\ source = "online"

\* the rows of a document that contribute under a layout, by position
Contributing(doc, min_cells, icon_cell) ==
    {j \in DOMAIN RowsOf(doc) : Contributes(RowsOf(doc)[j], min_cells, icon_cell)}

\* the roster has a name for exactly the contributing rows, with the code
\* of the last of them that carries the name
RosterOfRows(roster, doc, min_cells, name_cell, icon_cell) ==
    LET rows == RowsOf(doc)
        hits == Contributing(doc, min_cells, icon_cell)
        name(j) == get_text(rows[j][name_cell])
        code(j) == extract_job_code_from_img_src(rows[j][icon_cell].src)
    IN  /\ Keys(roster) = {name(j) : j \in hits}
        /\ \A j, k \in DOMAIN roster : roster[j][1] = roster[k][1] => j = k
        /\ \A j \in hits :
              (\A k \in hits : name(k) = name(j) => k <= j) =>
                 DictGet(roster, name(j), None) = code(j)

\* C16: in either layout the returned roster has an entry for a row if
\* and only if the row has the layout's minimum of cells, an image in the
\* icon cell, a path matching the pattern and a code of JOB_MAP; every
\* call returns, whatever its rows; a name of several contributing rows
\* has the code of the last of them.
C16_RowContributes ==
    fn # NoFn =>
        /\ fn.at = "call" => fn.roster = <<>>
        /\ (fn.at = "returned" /\ fn.layout = "online") =>
              RosterOfRows(fn.roster, fn.doc, 3, 1, 3)
        /\ (fn.at = "returned" /\ fn.layout = "ranking") =>
              RosterOfRows(fn.roster, fn.doc, 4, 2, 4)

\* parse_ranking returned one entry from a document whose first row has
\* too few cells and whose second row stands for another name in the
\* layout of the start page
C16_Witness ==
    /\ fn # NoFn
    /\ fn.at = "returned" /\ fn.layout = "ranking"
    /\ fn.doc = << <<OnlineRow(NameA, Src220),
                     <<Td(NameA), Td(NameB), Img(Src221), Img(Src220)>> >> >>
    /\ fn.roster = << <<"b", "220">> >>

\* C15: the dict merge_dicts(a, b) returns has the keys of a and of b and
\* no other, each once; a key of b has b's value, a key of a alone has a's
\* value; the dicts a and b point to are at every statement what they
\* were at the call; the result is what merge_dicts computes in a run.
C15_MergeUnion ==
    (fn # NoFn /\ fn.at \in {"copy", "update", "return", "returned"}) =>
        /\ fn.heap[fn.a] = fn.a0
        /\ fn.heap[fn.b] = fn.b0
        /\ fn.at = "returned" =>
              LET out == fn.heap[fn.ret]
              IN  /\ Keys(out) = Keys(fn.a0) \cup Keys(fn.b0)
                  /\ \A j, k \in DOMAIN out : out[j][1] = out[k][1] => j = k
                  /\ \A n \in Keys(fn.b0) :
                        DictGet(out, n, None) = DictGet(fn.b0, n, None)
                  /\ \A n \in Keys(fn.a0) \ Keys(fn.b0) :
                        DictGet(out, n, None) = DictGet(fn.a0, n, None)
                  /\ out = merge_dicts(fn.a0, fn.b0)

\* a call returned whose arguments are two objects that share a key with
\* different values and have a key each that the other lacks
C15_Witness ==
    /\ fn # NoFn
    /\ fn.at = "returned"
    /\ fn.b = RefB
    /\ fn.a0 = << <<"a", "220">>, <<"b", "220">> >>
    /\ fn.b0 = << <<"c", "221">>, <<"a", "221">> >>
    /\ fn.heap[fn.ret] = << <<"a", "221">>, <<"b", "220">>, <<"c", "221">> >>

\* both processes have saved, and both had read the file before either
\* opened it to save
BothLoadedFirst ==
    /\ race # NoRace
    /\ \A p \in RaceProcs : race.procs[p].pc = "done" /\ race.procs[p].read_at = 0

\* C13: when both runs read the state file before either saves, the file
\* is in the end what the run that wrote last computed from the players it
\* had read, unless the two saves overlapped and left no JSON document: a
\* name the other run stored and the last one neither read nor scraped is
\* not in the file, and a name the last one read and did not scrape has
\* the code it read, whatever the other run stored for it.
C13_LostUpdate ==
    BothLoadedFirst =>
        LET w == race.writes[2]
            f == race.writes[1]
            last == race.procs[w]
            first == race.procs[f]
        IN  /\ f = Other(w)
            /\ file.exists
            /\ file.text \in {RaceText(w), NoText}
            /\ file.text = NoText => race.overlap
            /\ \A n \in Keys(first.current_total) :
                  /\ n \notin Keys(last.before) \cup Keys(last.current_total) =>
                        n \notin DOMAIN Snapshot(file)
                  /\ (file.text # NoText /\ n \in Keys(last.before) \ Keys(last.current_total)) =>
                        Snapshot(file)[n] = DictGet(last.before, n, None)

\* the run that saved first stored a new player and a new code for a known
\* one; the other run saved afterwards, and the file has neither
C13_Witness ==
    /\ BothLoadedFirst
    /\ ~race.overlap
    /\ race.writes = <<1, 2>>
    /\ ToMap(race.procs[1].current_total) = ("a" :> "221") @@ ("b" :> "220")
    /\ race.procs[1].changes = << <<"a", "220", "221">> >>
    /\ Snapshot(file) = ("a" :> "220")

====
